---- MODULE Spec2Model ----
(***************************************************************************)
(* Shape-level model of rfb_esrgan_pytorch/model.py.                       *)
(*                                                                         *)
(* A forward pass is run by a small interpreter: a stack of frames, one    *)
(* per module whose forward() is executing, each with the module, the      *)
(* position in its forward body and its local variables.  A tensor is its  *)
(* shape and a token naming the contents of its storage; an in-place       *)
(* activation retires the token it overwrites.  The modules' constructors  *)
(* and forward bodies are transcribed from the source; the leaf layers     *)
(* (Conv2d, BatchNorm2d, ...) follow the shape rules of torch.nn.          *)
(***************************************************************************)
EXTENDS Integers, Sequences, FiniteSets, TLC

VARIABLES net, input, training, assume, status, stack, result,
          nextTok, dead, clobbered, staleRead, lastLink

vars == <<net, input, training, assume, status, stack, result,
          nextTok, dead, clobbered, staleRead, lastLink>>

(***************************************************************************)
(* Bounds of the model.                                                    *)
(***************************************************************************)
\* batch sizes 1..MaxBatch
MaxBatch == 2
\* heights and widths 1..MaxSize of the inputs of the generator and its blocks
MaxSize == 2
\* heights and widths 1..MaxDiscSize of the inputs of the discriminator
MaxDiscSize == 65
\* upscale_factor ranges over 2^0 .. 2^MaxLogFactor
MaxLogFactor == 3

(***************************************************************************)
(* Arithmetic helpers.                                                     *)
(***************************************************************************)
RECURSIVE Pow2(_)
Pow2(n) == IF n = 0 THEN 1 ELSE 2 * Pow2(n - 1)

RECURSIVE Log2Floor(_)
Log2Floor(f) == IF f < 2 THEN 0 ELSE 1 + Log2Floor(f \div 2)

RECURSIVE Prod(_)
Prod(s) == IF s = <<>> THEN 1 ELSE Head(s) * Prod(Tail(s))

Max(a, b) == IF a >= b THEN a ELSE b

(***************************************************************************)
(* Outcomes of a tensor operation: a shape, or the failure it raises.      *)
(***************************************************************************)
Ok(shape) == [ok |-> TRUE, shape |-> shape, err |-> "none"]
Fail(kind) == [ok |-> FALSE, shape |-> <<>>, err |-> kind]

(***************************************************************************)
(* Leaf layers of torch.nn, as the constructors of the source call them.   *)
(***************************************************************************)
Conv2d(cin, cout, kh, kw, st, ph, pw, d) ==
    [cls |-> "Conv2d", cin |-> cin, cout |-> cout, kh |-> kh, kw |-> kw,
     st |-> st, ph |-> ph, pw |-> pw, d |-> d]
LeakyReLU(inplace) == [cls |-> "LeakyReLU", inplace |-> inplace]
ReLU(inplace) == [cls |-> "ReLU", inplace |-> inplace]
BatchNorm2d(c) == [cls |-> "BatchNorm2d", cin |-> c]
Upsample(sf) == [cls |-> "Upsample", sf |-> sf]
PixelShuffle(r) == [cls |-> "PixelShuffle", r |-> r]
AdaptiveAvgPool2d(oh, ow) == [cls |-> "AdaptiveAvgPool2d", oh |-> oh, ow |-> ow]
Linear(cin, cout) == [cls |-> "Linear", cin |-> cin, cout |-> cout]
Sequential(layers) == [cls |-> "Sequential", layers |-> layers]
NoneValue == [cls |-> "None"]

LeafClasses == {"Conv2d", "LeakyReLU", "ReLU", "BatchNorm2d", "Upsample",
                "PixelShuffle", "AdaptiveAvgPool2d", "Linear", "None"}

\* one spatial dimension of a convolution's output
ConvDim(s, k, st, p, d) == ((s + 2 * p - d * (k - 1) - 1) \div st) + 1

\* torch.nn.Conv2d: the channel check, then the kernel-size check, then the output
Conv2dForward(l, s) ==
    IF Len(s) # 4 THEN Fail("dim_mismatch")
    ELSE IF s[2] # l.cin THEN Fail("channel_mismatch")
    ELSE IF \/ s[3] + 2 * l.ph < l.d * (l.kh - 1) + 1
            \/ s[4] + 2 * l.pw < l.d * (l.kw - 1) + 1
         THEN Fail("kernel_exceeds_input")
    ELSE Ok(<<s[1], l.cout, ConvDim(s[3], l.kh, l.st, l.ph, l.d),
              ConvDim(s[4], l.kw, l.st, l.pw, l.d)>>)

\* torch.nn.BatchNorm2d: in training mode it needs more than one value per channel
BatchNorm2dForward(l, s, train) ==
    IF Len(s) # 4 THEN Fail("dim_mismatch")
    ELSE IF train /\ s[1] * s[3] * s[4] = 1 THEN Fail("single_value_per_channel")
    ELSE IF s[2] # l.cin THEN Fail("channel_mismatch")
    ELSE Ok(s)

UpsampleForward(l, s) ==
    IF Len(s) # 4 THEN Fail("dim_mismatch")
    ELSE Ok(<<s[1], s[2], s[3] * l.sf, s[4] * l.sf>>)

PixelShuffleForward(l, s) ==
    IF Len(s) # 4 THEN Fail("dim_mismatch")
    ELSE IF s[2] % (l.r * l.r) # 0 THEN Fail("channel_mismatch")
    ELSE Ok(<<s[1], s[2] \div (l.r * l.r), s[3] * l.r, s[4] * l.r>>)

AdaptiveAvgPool2dForward(l, s) ==
    IF Len(s) # 4 THEN Fail("dim_mismatch")
    ELSE Ok(<<s[1], s[2], l.oh, l.ow>>)

LinearForward(l, s) ==
    IF s[Len(s)] # l.cin THEN Fail("size_mismatch")
    ELSE Ok([i \in 1..Len(s) |-> IF i = Len(s) THEN l.cout ELSE s[i]])

LeafForward(l, s, train) ==
    CASE l.cls = "Conv2d" -> Conv2dForward(l, s)
      [] l.cls = "BatchNorm2d" -> BatchNorm2dForward(l, s, train)
      [] l.cls = "Upsample" -> UpsampleForward(l, s)
      [] l.cls = "PixelShuffle" -> PixelShuffleForward(l, s)
      [] l.cls = "AdaptiveAvgPool2d" -> AdaptiveAvgPool2dForward(l, s)
      [] l.cls = "Linear" -> LinearForward(l, s)
      [] OTHER -> Ok(s)

\* an activation constructed with inplace=True writes into its operand
IsInplace(l) == l.cls \in {"LeakyReLU", "ReLU"} /\ l.inplace

\* the layers constructed with a number of input channels (features)
HasInChannels(l) == l.cls \in {"Conv2d", "BatchNorm2d", "Linear"}

(***************************************************************************)
(* Functional tensor operations used in the forward bodies.                *)
(***************************************************************************)
\* torch.flatten(t, 1)
Flatten(s) == Ok(<<s[1], Prod(Tail(s))>>)

RECURSIVE SumChannels(_)
SumChannels(ss) == IF ss = <<>> THEN 0 ELSE Head(ss)[2] + SumChannels(Tail(ss))

\* torch.cat(ts, 1): every dimension but the channels must agree
Cat(ss) ==
    IF \E i \in 1..Len(ss) :
          \/ Len(ss[i]) # Len(ss[1])
          \/ \E j \in 1..Len(ss[1]) : j # 2 /\ ss[i][j] # ss[1][j]
    THEN Fail("size_mismatch")
    ELSE Ok([j \in 1..Len(ss[1]) |-> IF j = 2 THEN SumChannels(ss) ELSE ss[1][j]])

\* a + b with broadcasting: aligned from the right, sizes equal or one of them 1
BroadcastAdd(a, b) ==
    LET n == Max(Len(a), Len(b))
        A == [i \in 1..n |-> IF i <= n - Len(a) THEN 1 ELSE a[i - (n - Len(a))]]
        B == [i \in 1..n |-> IF i <= n - Len(b) THEN 1 ELSE b[i - (n - Len(b))]]
    IN IF \E i \in 1..n : A[i] # B[i] /\ A[i] # 1 /\ B[i] # 1
       THEN Fail("size_mismatch")
       ELSE Ok([i \in 1..n |-> Max(A[i], B[i])])

(***************************************************************************)
(* The modules of model.py.  A module value records the class and the      *)
(* constructor's arguments; <Class>Init(m, attr) is the sub-module that    *)
(* __init__ assigns to self.<attr>, <Class>Attrs the attributes __init__   *)
(* assigns, and <Class>Forward the body of forward().                      *)
(***************************************************************************)
Discriminator == [cls |-> "Discriminator"]
Generator(upscale_factor) == [cls |-> "Generator", upscale_factor |-> upscale_factor]
Inception(in_channels, out_channels, non_linearity) ==
    [cls |-> "Inception", cin |-> in_channels, cout |-> out_channels,
     non_linearity |-> non_linearity]
ReceptiveFieldsDenseBlock(in_channels, growth_channels) ==
    [cls |-> "ReceptiveFieldsDenseBlock", cin |-> in_channels, growth |-> growth_channels]
ResidualInResidualFieldsDenseBlock(in_channels, growth_channels) ==
    [cls |-> "ResidualInResidualFieldsDenseBlock", cin |-> in_channels,
     growth |-> growth_channels]
ResidualDenseBlock(in_channels, growth_channels) ==
    [cls |-> "ResidualDenseBlock", cin |-> in_channels, growth |-> growth_channels]
ResidualInResidualDenseBlock(in_channels, growth_channels) ==
    [cls |-> "ResidualInResidualDenseBlock", cin |-> in_channels,
     growth |-> growth_channels]

\* instructions of a forward body
CallI(dst, attr, arg) == [op |-> "call", dst |-> dst, attr |-> attr, args |-> <<arg>>]
CatI(dst, args) == [op |-> "cat", dst |-> dst, attr |-> "", args |-> args]
ScaleAddI(dst, a, b) == [op |-> "scaleadd", dst |-> dst, attr |-> "scale_ratio", args |-> <<a, b>>]
AddI(dst, a, b) == [op |-> "add", dst |-> dst, attr |-> "", args |-> <<a, b>>]
FlattenI(dst, a) == [op |-> "flatten", dst |-> dst, attr |-> "", args |-> <<a>>]
ReturnI(a) == [op |-> "return", dst |-> "", attr |-> "", args |-> <<a>>]

---------------------------------------------------------------------------
\* Discriminator.__init__: self.features
DiscriminatorFeatures ==
    Sequential(<<
        Conv2d(3, 64, 3, 3, 1, 1, 1, 1), LeakyReLU(TRUE),
        Conv2d(64, 64, 4, 4, 2, 1, 1, 1), BatchNorm2d(64), LeakyReLU(TRUE),
        Conv2d(64, 128, 3, 3, 1, 1, 1, 1), BatchNorm2d(128), LeakyReLU(TRUE),
        Conv2d(128, 128, 4, 4, 2, 1, 1, 1), BatchNorm2d(128), LeakyReLU(TRUE),
        Conv2d(128, 256, 3, 3, 1, 1, 1, 1), BatchNorm2d(256), LeakyReLU(TRUE),
        Conv2d(256, 256, 4, 4, 2, 1, 1, 1), BatchNorm2d(256), LeakyReLU(TRUE),
        Conv2d(256, 512, 3, 3, 1, 1, 1, 1), BatchNorm2d(512), LeakyReLU(TRUE),
        Conv2d(512, 512, 4, 4, 2, 1, 1, 1), BatchNorm2d(512), LeakyReLU(TRUE),
        Conv2d(512, 512, 3, 3, 1, 1, 1, 1), BatchNorm2d(512), LeakyReLU(TRUE),
        Conv2d(512, 512, 4, 4, 2, 1, 1, 1), BatchNorm2d(512), LeakyReLU(TRUE) >>)

\* variant: a 6 x 6 pooling target under the unchanged 512 * 7 * 7 classifier
DiscriminatorAvgpoolSix == AdaptiveAvgPool2d(6, 6)

\* Discriminator.__init__: self.avgpool
DiscriminatorAvgpool == AdaptiveAvgPool2d(7, 7)

\* variant: the classifier ends in two logits instead of one score
DiscriminatorClassifierTwoLogits ==
    Sequential(<< Linear(512 * 7 * 7, 100), LeakyReLU(TRUE), Linear(100, 2) >>)

\* Discriminator.__init__: self.classifier
DiscriminatorClassifier ==
    Sequential(<< Linear(512 * 7 * 7, 100), LeakyReLU(TRUE), Linear(100, 1) >>)

DiscriminatorInit(m, attr) ==
    CASE attr = "features" -> DiscriminatorFeatures
      [] attr = "avgpool" -> DiscriminatorAvgpool
      [] attr = "classifier" -> DiscriminatorClassifier

DiscriminatorAttrs == {"features", "avgpool", "classifier"}

DiscriminatorForward ==
    << CallI("out", "features", "input"),
       CallI("out", "avgpool", "out"),
       FlattenI("out", "out"),
       CallI("out", "classifier", "out"),
       ReturnI("out") >>

---------------------------------------------------------------------------
\* Generator.__init__: upsample_block_num = int(math.log(upscale_factor, 2))
UpsampleBlockNum(upscale_factor) == Log2Floor(upscale_factor)

\* Generator.__init__: the layers one round of the upsampling loop appends
UpsamplingBlock ==
    << Upsample(2),
       Inception(64, 64, TRUE),
       Conv2d(64, 256, 3, 3, 1, 1, 1, 1),
       LeakyReLU(TRUE),
       PixelShuffle(2),
       Inception(64, 64, TRUE) >>

RECURSIVE Repeat(_, _)
Repeat(layers, n) == IF n = 0 THEN <<>> ELSE layers \o Repeat(layers, n - 1)

\* Generator.__init__: self.upsampling
GeneratorUpsampling(upscale_factor) ==
    Sequential(Repeat(UpsamplingBlock, UpsampleBlockNum(upscale_factor)))

GeneratorInit(m, attr) ==
    CASE attr = "conv1" -> Conv2d(3, 64, 3, 3, 1, 1, 1, 1)
      [] attr = "residual_residual_dense_blocks" ->
            Sequential([i \in 1..16 |-> ResidualInResidualDenseBlock(64, 32)])
      [] attr = "residual_residual_fields_dense_blocks" ->
            Sequential([i \in 1..8 |-> ResidualInResidualFieldsDenseBlock(64, 32)])
      [] attr = "conv2" -> Inception(64, 64, FALSE)
      [] attr = "upsampling" -> GeneratorUpsampling(m.upscale_factor)
      [] attr = "conv3" ->
            Sequential(<< Conv2d(64, 64, 3, 3, 1, 1, 1, 1), LeakyReLU(TRUE),
                          Conv2d(64, 3, 3, 3, 1, 1, 1, 1) >>)

GeneratorAttrs == {"conv1", "residual_residual_dense_blocks",
                   "residual_residual_fields_dense_blocks", "conv2", "upsampling",
                   "conv3"}

GeneratorForward ==
    << CallI("out1", "conv1", "input"),
       CallI("out2", "residual_residual_dense_blocks", "out1"),
       CallI("out2", "residual_residual_fields_dense_blocks", "out2"),
       AddI("out", "out1", "out2"),
       CallI("out", "conv2", "out"),
       CallI("out", "upsampling", "out"),
       CallI("out", "conv3", "out"),
       ReturnI("out") >>

---------------------------------------------------------------------------
\* Inception.__init__: self.branch1
InceptionBranch1(in_channels, channels) ==
    Sequential(<< Conv2d(in_channels, channels, 1, 1, 1, 0, 0, 1), ReLU(TRUE),
                  Conv2d(channels, channels, 1, 1, 1, 1, 1, 1) >>)

\* Inception.__init__: self.branch2
InceptionBranch2(in_channels, channels) ==
    Sequential(<< Conv2d(in_channels, channels, 1, 1, 1, 0, 0, 1), ReLU(TRUE),
                  Conv2d(channels, channels, 1, 3, 1, 0, 1, 1), ReLU(TRUE),
                  Conv2d(channels, channels, 3, 3, 1, 3, 3, 3) >>)

\* Inception.__init__: self.branch3
InceptionBranch3(in_channels, channels) ==
    Sequential(<< Conv2d(in_channels, channels, 1, 1, 1, 0, 0, 1), ReLU(TRUE),
                  Conv2d(channels, channels, 3, 1, 1, 1, 0, 1), ReLU(TRUE),
                  Conv2d(channels, channels, 3, 3, 1, 3, 3, 3) >>)

\* Inception.__init__: self.branch4
InceptionBranch4(in_channels, channels) ==
    Sequential(<< Conv2d(in_channels, channels \div 2, 1, 1, 1, 0, 0, 1), ReLU(TRUE),
                  Conv2d(channels \div 4, (channels \div 4) * 3, 1, 3, 1, 0, 1, 1),
                  ReLU(TRUE),
                  Conv2d((channels \div 4) * 3, channels, 1, 3, 1, 0, 1, 1), ReLU(TRUE),
                  Conv2d(channels, channels, 3, 3, 1, 5, 5, 5) >>)

InceptionInit(m, attr) ==
    LET channels == m.cin \div 4
    IN CASE attr = "shortcut" -> Conv2d(m.cin, m.cout, 1, 1, 1, 0, 0, 1)
         [] attr = "branch1" -> InceptionBranch1(m.cin, channels)
         [] attr = "branch2" -> InceptionBranch2(m.cin, channels)
         [] attr = "branch3" -> InceptionBranch3(m.cin, channels)
         [] attr = "branch4" -> InceptionBranch4(m.cin, channels)
         [] attr = "conv1x1" -> Conv2d(m.cin, m.cout, 1, 1, 1, 0, 0, 1)
         [] attr = "lrelu" -> IF m.non_linearity THEN LeakyReLU(TRUE) ELSE NoneValue

InceptionAttrs == {"shortcut", "branch1", "branch2", "branch3", "branch4", "conv1x1",
                   "lrelu", "scale_ratio"}

InceptionForward ==
    << CallI("shortcut", "shortcut", "input"),
       CallI("branch1", "branch1", "input"),
       CallI("branch2", "branch2", "input"),
       CallI("branch3", "branch3", "input"),
       CallI("branch4", "branch4", "input"),
       CatI("out", <<"branch1", "branch2", "branch3", "branch4">>),
       CallI("out", "conv1x1", "out"),
       ScaleAddI("out", "shortcut", "out"),
       CallI("out", "lrelu", "out"),
       ReturnI("out") >>

---------------------------------------------------------------------------
\* ReceptiveFieldsDenseBlock.__init__: self.conv1 .. self.conv5
ReceptiveFieldsDenseBlockInit(m, attr) ==
    CASE attr = "conv1" -> Inception(m.cin, m.growth, TRUE)
      [] attr = "conv2" -> Inception(m.cin + 1 * m.growth, m.growth, TRUE)
      [] attr = "conv3" -> Inception(m.cin + 2 * m.growth, m.growth, TRUE)
      [] attr = "conv4" -> Inception(m.cin + 3 * m.growth, m.growth, TRUE)
      [] attr = "conv5" -> Inception(m.cin + 4 * m.growth, m.growth, FALSE)

\* __init__ assigns no self.scale_ratio
ReceptiveFieldsDenseBlockAttrs == {"conv1", "conv2", "conv3", "conv4", "conv5"}

ReceptiveFieldsDenseBlockForward ==
    << CallI("conv1", "conv1", "input"),
       CatI("cat", <<"input", "conv1">>),
       CallI("conv2", "conv2", "cat"),
       CatI("cat", <<"input", "conv1", "conv2">>),
       CallI("conv3", "conv3", "cat"),
       CatI("cat", <<"input", "conv1", "conv2", "conv3">>),
       CallI("conv4", "conv4", "cat"),
       CatI("cat", <<"input", "conv1", "conv2", "conv3", "conv4">>),
       CallI("conv5", "conv5", "cat"),
       ScaleAddI("out", "conv5", "input"),
       ReturnI("out") >>

---------------------------------------------------------------------------
ResidualInResidualFieldsDenseBlockInit(m, attr) ==
    CASE attr \in {"RFDB1", "RFDB2", "RFDB3"} -> ReceptiveFieldsDenseBlock(m.cin, m.growth)

ResidualInResidualFieldsDenseBlockAttrs == {"RFDB1", "RFDB2", "RFDB3", "scale_ratio"}

ResidualInResidualFieldsDenseBlockForward ==
    << CallI("out", "RFDB1", "input"),
       CallI("out", "RFDB2", "out"),
       CallI("out", "RFDB3", "out"),
       ScaleAddI("out", "out", "input"),
       ReturnI("out") >>

---------------------------------------------------------------------------
\* ResidualDenseBlock.__init__: in_channels of the k-th convolution
DenseInChannels(in_channels, growth_channels, k) == in_channels + (k - 1) * growth_channels

\* variant: conv5 emits growth_channels, as ReceptiveFieldsDenseBlock's conv5 does
DenseOutChannelsGrowth(in_channels, growth_channels, k) == growth_channels

\* ResidualDenseBlock.__init__: out_channels of the k-th convolution
DenseOutChannels(in_channels, growth_channels, k) ==
    IF k = 5 THEN in_channels ELSE growth_channels

\* variant: the in-place activation placed before the convolution
DenseConvActFirst(in_channels, growth_channels, k) ==
    Sequential(<< LeakyReLU(TRUE),
                  Conv2d(DenseInChannels(in_channels, growth_channels, k),
                         DenseOutChannels(in_channels, growth_channels, k),
                         3, 3, 1, 1, 1, 1) >>)

\* ResidualDenseBlock.__init__: self.conv<k>
DenseConv(in_channels, growth_channels, k) ==
    Sequential(<< Conv2d(DenseInChannels(in_channels, growth_channels, k),
                         DenseOutChannels(in_channels, growth_channels, k),
                         3, 3, 1, 1, 1, 1),
                  LeakyReLU(TRUE) >>)

ResidualDenseBlockInit(m, attr) ==
    CASE attr = "conv1" -> DenseConv(m.cin, m.growth, 1)
      [] attr = "conv2" -> DenseConv(m.cin, m.growth, 2)
      [] attr = "conv3" -> DenseConv(m.cin, m.growth, 3)
      [] attr = "conv4" -> DenseConv(m.cin, m.growth, 4)
      [] attr = "conv5" -> DenseConv(m.cin, m.growth, 5)

\* variant: __init__ without "self.scale_ratio = scale_ratio", as in
\* ReceptiveFieldsDenseBlock
ResidualDenseBlockAttrsNoScale == {"conv1", "conv2", "conv3", "conv4", "conv5"}

ResidualDenseBlockAttrs == {"conv1", "conv2", "conv3", "conv4", "conv5", "scale_ratio"}

ResidualDenseBlockForward ==
    << CallI("conv1", "conv1", "input"),
       CatI("cat", <<"input", "conv1">>),
       CallI("conv2", "conv2", "cat"),
       CatI("cat", <<"input", "conv1", "conv2">>),
       CallI("conv3", "conv3", "cat"),
       CatI("cat", <<"input", "conv1", "conv2", "conv3">>),
       CallI("conv4", "conv4", "cat"),
       CatI("cat", <<"input", "conv1", "conv2", "conv3", "conv4">>),
       CallI("conv5", "conv5", "cat"),
       ScaleAddI("out", "conv5", "input"),
       ReturnI("out") >>

---------------------------------------------------------------------------
ResidualInResidualDenseBlockInit(m, attr) ==
    CASE attr \in {"RBD1", "RBD2", "RBD3"} -> ResidualDenseBlock(m.cin, m.growth)

ResidualInResidualDenseBlockAttrs == {"RBD1", "RBD2", "RBD3", "scale_ratio"}

ResidualInResidualDenseBlockForward ==
    << CallI("out", "RBD1", "input"),
       CallI("out", "RBD2", "out"),
       CallI("out", "RBD3", "out"),
       ScaleAddI("out", "out", "input"),
       ReturnI("out") >>

---------------------------------------------------------------------------
(***************************************************************************)
(* Dispatch on the class of a module.                                      *)
(***************************************************************************)
\* self.<attr>, as __init__ assigned it
Sub(m, attr) ==
    CASE m.cls = "Discriminator" -> DiscriminatorInit(m, attr)
      [] m.cls = "Generator" -> GeneratorInit(m, attr)
      [] m.cls = "Inception" -> InceptionInit(m, attr)
      [] m.cls = "ReceptiveFieldsDenseBlock" -> ReceptiveFieldsDenseBlockInit(m, attr)
      [] m.cls = "ResidualInResidualFieldsDenseBlock" ->
            ResidualInResidualFieldsDenseBlockInit(m, attr)
      [] m.cls = "ResidualDenseBlock" -> ResidualDenseBlockInit(m, attr)
      [] m.cls = "ResidualInResidualDenseBlock" -> ResidualInResidualDenseBlockInit(m, attr)

\* the attributes an instance has: reading any other raises AttributeError
Attrs(m) ==
    CASE m.cls = "Discriminator" -> DiscriminatorAttrs
      [] m.cls = "Generator" -> GeneratorAttrs
      [] m.cls = "Inception" -> InceptionAttrs
      [] m.cls = "ReceptiveFieldsDenseBlock" -> ReceptiveFieldsDenseBlockAttrs
      [] m.cls = "ResidualInResidualFieldsDenseBlock" ->
            ResidualInResidualFieldsDenseBlockAttrs
      [] m.cls = "ResidualDenseBlock" -> ResidualDenseBlockAttrs
      [] m.cls = "ResidualInResidualDenseBlock" -> ResidualInResidualDenseBlockAttrs
      [] OTHER -> {}

\* the body of forward()
Forward(m) ==
    CASE m.cls = "Discriminator" -> DiscriminatorForward
      [] m.cls = "Generator" -> GeneratorForward
      [] m.cls = "Inception" -> InceptionForward
      [] m.cls = "ReceptiveFieldsDenseBlock" -> ReceptiveFieldsDenseBlockForward
      [] m.cls = "ResidualInResidualFieldsDenseBlock" ->
            ResidualInResidualFieldsDenseBlockForward
      [] m.cls = "ResidualDenseBlock" -> ResidualDenseBlockForward
      [] m.cls = "ResidualInResidualDenseBlock" -> ResidualInResidualDenseBlockForward

(***************************************************************************)
(* The interpreter.                                                        *)
(***************************************************************************)
Tensor(shape, tok) == [shape |-> shape, tok |-> tok]
Frame(m, pc, env) == [mod |-> m, pc |-> pc, env |-> env]
Top == stack[Len(stack)]

\* env with name bound to the tensor t
Bind(env, name, t) ==
    [n \in DOMAIN env \cup {name} |-> IF n = name THEN t ELSE env[n]]

\* the statement a frame is at.  nn.Sequential.forward is
\* "for module in self: input = module(input)", then "return input"
Instr(f) ==
    IF f.mod.cls = "Sequential"
    THEN IF f.pc <= Len(f.mod.layers) THEN CallI("input", "", "input")
         ELSE ReturnI("input")
    ELSE Forward(f.mod)[f.pc]

\* the module the call statement of a frame calls
Callee(f) ==
    IF f.mod.cls = "Sequential" THEN f.mod.layers[f.pc] ELSE Sub(f.mod, Instr(f).attr)

\* the tensors a frame's statement reads
Operands(f) == [i \in 1..Len(Instr(f).args) |-> f.env[Instr(f).args[i]]]

\* the tokens some local variable of some frame of st holds
Live(st) == UNION {{st[i].env[n].tok : n \in DOMAIN st[i].env} : i \in 1..Len(st)}

\* a statement reads a tensor whose contents an in-place layer has overwritten
ReadsStale(f) == \E i \in 1..Len(Operands(f)) : Operands(f)[i].tok \in dead

\* another variable than local dst of the top frame holds token tok
HeldElsewhere(tok, dst) ==
    \E i \in 1..Len(stack) : \E n \in DOMAIN stack[i].env :
        /\ stack[i].env[n].tok = tok
        /\ ~(i = Len(stack) /\ n = dst)

\* the top frame with dst bound to t, at its next statement
Advance(dst, t) ==
    [stack EXCEPT ![Len(stack)] = Frame(Top.mod, Top.pc + 1, Bind(Top.env, dst, t))]

\* the claim-specific premise "each Inception(64, 64) layer of the upsampling
\* stage returns a tensor of its input's shape" applies to module m
Assumed(m) == assume /\ net.cls = "Sequential" /\ m.cls = "Inception" /\ m.cin = m.cout

---------------------------------------------------------------------------
\* the modules a run starts from: the two networks, the upsampling stage, and every
\* block the generator is built from
Nets ==
    <<Discriminator>>
    \o [k \in 1..(MaxLogFactor + 1) |-> Generator(Pow2(k - 1))]
    \o [k \in 1..(MaxLogFactor + 1) |-> GeneratorUpsampling(Pow2(k - 1))]
    \o <<Inception(64, 64, FALSE), Inception(64, 64, TRUE)>>
    \o [k \in 1..5 |-> Sub(ReceptiveFieldsDenseBlock(64, 32), "conv" \o ToString(k))]
    \o <<ReceptiveFieldsDenseBlock(64, 32), ResidualInResidualFieldsDenseBlock(64, 32),
         ResidualDenseBlock(64, 32), ResidualInResidualDenseBlock(64, 32)>>

\* the channels the module expects of its input
InChannels(m) ==
    CASE m.cls \in {"Discriminator", "Generator"} -> 3
      [] m.cls = "Sequential" -> 64
      [] OTHER -> m.cin

InputChannels(m) == {InChannels(m), InChannels(m) + 1}
InputSizes(m) == IF m.cls = "Discriminator" THEN 1..MaxDiscSize ELSE 1..MaxSize

InitCommon ==
    /\ \E i \in 1..Len(Nets) :
          /\ net = Nets[i]
          /\ \E n \in 1..MaxBatch, c \in InputChannels(Nets[i]),
                h \in InputSizes(Nets[i]), w \in InputSizes(Nets[i]) :
                input = <<n, c, h, w>>
    /\ training = TRUE
    /\ status = "idle"
    /\ stack = <<>>
    /\ result = Tensor(<<>>, 0)
    /\ nextTok = 1
    /\ dead = {}
    /\ clobbered = FALSE
    /\ staleRead = FALSE
    /\ lastLink = [have |-> 0, want |-> 0]

Init == InitCommon /\ assume = FALSE

\* nn.Module.eval()
Eval ==
    /\ status = "idle" /\ training
    /\ training' = FALSE
    /\ UNCHANGED <<net, input, assume, status, stack, result, nextTok, dead, clobbered,
                   staleRead, lastLink>>

\* nn.Module.train()
Train ==
    /\ status = "idle" /\ ~training
    /\ training' = TRUE
    /\ UNCHANGED <<net, input, assume, status, stack, result, nextTok, dead, clobbered,
                   staleRead, lastLink>>

\* net(input): the forward pass starts
StartForward ==
    /\ status = "idle"
    /\ status' = "running"
    /\ stack' = <<Frame(net, 1, [n \in {"input"} |-> Tensor(input, 0)])>>
    /\ UNCHANGED <<net, input, training, assume, result, nextTok, dead, clobbered,
                   staleRead, lastLink>>

\* a statement calls a module of this file, or an nn.Sequential: its forward starts
CallModule ==
    /\ status = "running"
    /\ Instr(Top).op = "call"
    /\ Callee(Top).cls \notin LeafClasses
    /\ ~Assumed(Callee(Top))
    /\ stack' = Append(stack, Frame(Callee(Top), 1,
                                    [n \in {"input"} |-> Operands(Top)[1]]))
    /\ staleRead' = (staleRead \/ ReadsStale(Top))
    /\ UNCHANGED <<net, input, training, assume, status, result, nextTok, dead, clobbered,
                   lastLink>>

\* a statement calls a layer of torch.nn, which runs to its result or raises
ApplyLayer ==
    /\ status = "running"
    /\ Instr(Top).op = "call"
    /\ Callee(Top).cls \in LeafClasses
    /\ LET l == Callee(Top)
           x == Operands(Top)[1]
           r == LeafForward(l, x.shape, training)
           dst == Instr(Top).dst
       IN IF l.cls = "None"
          THEN \* "if self.lrelu is not None" is false
               /\ stack' = Advance(dst, x)
               /\ UNCHANGED <<status, nextTok, dead, clobbered, staleRead, lastLink>>
          ELSE /\ lastLink' = IF HasInChannels(l)
                               THEN [have |-> x.shape[IF Len(x.shape) = 4 THEN 2
                                                      ELSE Len(x.shape)],
                                     want |-> l.cin]
                               ELSE lastLink
               /\ staleRead' = (staleRead \/ ReadsStale(Top))
               /\ IF ~r.ok
                  THEN /\ status' = r.err
                       /\ UNCHANGED <<stack, nextTok, dead, clobbered>>
                  ELSE /\ status' = status
                       /\ stack' = Advance(dst, Tensor(r.shape, nextTok))
                       /\ nextTok' = nextTok + 1
                       \* token 0 is the tensor the caller passed to the pass
                       /\ clobbered' = (clobbered \/ (IsInplace(l) /\
                                           (x.tok = 0 \/ HeldElsewhere(x.tok, dst))))
                       /\ dead' = (IF IsInplace(l) THEN dead \cup {x.tok} ELSE dead)
                                    \cap Live(stack')
    /\ UNCHANGED <<net, input, training, assume, result>>

\* torch.cat, torch.add, torch.flatten, or "a * self.scale_ratio + b"
TensorOp ==
    /\ status = "running"
    /\ Instr(Top).op \in {"cat", "add", "scaleadd", "flatten"}
    /\ LET i == Instr(Top)
           xs == Operands(Top)
           r == CASE i.op = "cat" -> Cat([k \in 1..Len(xs) |-> xs[k].shape])
                  [] i.op = "flatten" -> Flatten(xs[1].shape)
                  [] i.op = "add" -> BroadcastAdd(xs[1].shape, xs[2].shape)
                  [] i.op = "scaleadd" ->
                        IF i.attr \in Attrs(Top.mod)
                        THEN BroadcastAdd(xs[1].shape, xs[2].shape)
                        ELSE Fail("attribute_error")
           \* torch.flatten returns a view of its operand; the others a new tensor
           tok == IF i.op = "flatten" THEN xs[1].tok ELSE nextTok
       IN /\ staleRead' = (staleRead \/ ReadsStale(Top))
          /\ IF ~r.ok
             THEN /\ status' = r.err
                  /\ UNCHANGED <<stack, nextTok, dead>>
             ELSE /\ status' = status
                  /\ stack' = Advance(i.dst, Tensor(r.shape, tok))
                  /\ nextTok' = nextTok + 1
                  /\ dead' = dead \cap Live(stack')
    /\ UNCHANGED <<net, input, training, assume, result, clobbered, lastLink>>

\* return: the frame ends and the caller binds the result, or the pass is done
Return ==
    /\ status = "running"
    /\ Instr(Top).op = "return"
    /\ LET v == Operands(Top)[1]
           rest == SubSeq(stack, 1, Len(stack) - 1)
       IN /\ staleRead' = (staleRead \/ ReadsStale(Top))
          /\ IF rest = <<>>
             THEN /\ status' = "done"
                  /\ result' = v
                  /\ stack' = rest
             ELSE LET c == rest[Len(rest)]
                  IN /\ stack' = [rest EXCEPT ![Len(rest)] =
                                     Frame(c.mod, c.pc + 1, Bind(c.env, Instr(c).dst, v))]
                     /\ UNCHANGED <<status, result>>
          /\ dead' = dead \cap Live(stack')
    /\ UNCHANGED <<net, input, training, assume, nextTok, clobbered, lastLink>>

\* under the premise Assumed, the call of an Inception(64, 64) layer yields a new
\* tensor of its input's shape
AssumedInception ==
    /\ status = "running"
    /\ Instr(Top).op = "call"
    /\ Assumed(Callee(Top))
    /\ stack' = Advance(Instr(Top).dst, Tensor(Operands(Top)[1].shape, nextTok))
    /\ nextTok' = nextTok + 1
    /\ UNCHANGED <<net, input, training, assume, status, result, dead, clobbered,
                   staleRead, lastLink>>

Next == Eval \/ Train \/ StartForward \/ CallModule \/ ApplyLayer \/ TensorOp \/ Return

Spec == Init /\ [][Next]_vars

\* the runs of the upsampling stage with its Inception layers assumed to work
InitAssume ==
    /\ InitCommon
    /\ assume \in (IF net.cls = "Sequential" THEN BOOLEAN ELSE {FALSE})

NextAssume == Next \/ AssumedInception

SpecAssume == InitAssume /\ [][NextAssume]_vars

(***************************************************************************)
(* The properties.                                                         *)
(***************************************************************************)
Finished == status \notin {"idle", "running"}

\* the input has the channels the module under test was constructed for
WellTyped == input[2] = InChannels(net)

\* failures that are a mismatch between the shapes of a layer and its operands
ShapeMismatches == {"channel_mismatch", "size_mismatch", "kernel_exceeds_input",
                    "dim_mismatch"}

\* failures decided by the shapes of the tensors (and the training mode) alone
ShapeFailures == ShapeMismatches \cup {"single_value_per_channel"}

\* the number of stride-2 convolutions among the first n layers
RECURSIVE Halvings(_, _)
Halvings(layers, n) ==
    IF n = 0 THEN 0
    ELSE Halvings(layers, n - 1)
         + (IF layers[n].cls = "Conv2d" /\ layers[n].st = 2 THEN 1 ELSE 0)

---------------------------------------------------------------------------
\* C1: for every input (batch, 3, H, W) and power-of-two upscale_factor,
\* Generator.forward completes and returns (batch, 3, H*factor, W*factor).
C1_GeneratorUpscales ==
    (net.cls = "Generator" /\ WellTyped /\ Finished) =>
        /\ status = "done"
        /\ result.shape = <<input[1], 3, input[3] * net.upscale_factor,
                            input[4] * net.upscale_factor>>

---------------------------------------------------------------------------
\* C2 (as stated): for every input (batch, 3, H, W) with batch, H, W >= 1,
\* Discriminator.forward completes and returns a tensor of shape (batch, 1).
C2_DiscriminatorAnySize ==
    (net.cls = "Discriminator" /\ WellTyped /\ Finished) =>
        (status = "done" /\ result.shape = <<input[1], 1>>)

\* the inputs on which the discriminator's last BatchNorm2d sees more than one
\* value per channel, or does not look (evaluation mode)
EnoughValues == ~training \/ input[1] * (input[3] \div 32) * (input[4] \div 32) > 1

\* C2 (amended): for every input (batch, 3, H, W) with H, W >= 32 and, in training
\* mode, batch * floor(H/32) * floor(W/32) > 1, Discriminator.forward runs to its
\* end without raising and returns a tensor of shape (batch, 1).
C2_DiscriminatorScores ==
    (net.cls = "Discriminator" /\ WellTyped /\ input[3] >= 32 /\ input[4] >= 32
        /\ EnoughValues) =>
        /\ status \in {"idle", "running", "done"}
        /\ status = "running" => ENABLED Next
        /\ status = "done" => result.shape = <<input[1], 1>>

C2_Witness ==
    /\ net.cls = "Discriminator" /\ status = "done" /\ training
    /\ input = <<1, 3, 33, 64>> /\ result.shape = <<1, 1>>

---------------------------------------------------------------------------
\* C3: at every connection point the channels the producer emits equal the
\* in_channels the consuming layer was constructed with.
C3_ChannelsMatch == WellTyped => lastLink.have = lastLink.want

---------------------------------------------------------------------------
\* C4: in Inception.forward the shortcut and the four branches all have the batch
\* size and the spatial size of the input.
C4_BranchesKeepSize ==
    \A i \in 1..Len(stack) :
        stack[i].mod.cls = "Inception" =>
            \A b \in {"shortcut", "branch1", "branch2", "branch3", "branch4"}
                      \cap DOMAIN stack[i].env :
                LET x == stack[i].env["input"].shape
                    y == stack[i].env[b].shape
                IN y[1] = x[1] /\ y[3] = x[3] /\ y[4] = x[4]

---------------------------------------------------------------------------
\* C5: ReceptiveFieldsDenseBlock.forward returns a tensor of its input's shape
\* (in_channels, H, W): conv5 has the input's channels and size and is scaled by
\* the block's scale_ratio before it is added to the input.
C5_FieldsBlockKeepsShape ==
    (net.cls = "ReceptiveFieldsDenseBlock" /\ WellTyped /\ Finished) =>
        (status = "done" /\ result.shape = input)

---------------------------------------------------------------------------
\* C6 (as stated): a forward pass either completes or fails with a tensor shape
\* mismatch; no other failure is reachable.
C6_OnlyShapeMismatches == status \in {"idle", "running", "done"} \cup ShapeMismatches

\* C6 (amended): a forward pass either completes or fails with a failure decided
\* by the tensor shapes: a shape mismatch or, in training mode, BatchNorm2d's
\* refusal of a single value per channel.  No AttributeError is reachable.
C6_OnlyShapeFailures == status \in {"idle", "running", "done"} \cup ShapeFailures

C6_Witness ==
    /\ net.cls = "ReceptiveFieldsDenseBlock" /\ WellTyped
    /\ status = "channel_mismatch"
    /\ Len(stack) = 3 /\ stack[1].pc = 1 /\ stack[2].pc = 5

---------------------------------------------------------------------------
\* the upsampling blocks of the stage under test
StageBlocks == Len(net.layers) \div Len(UpsamplingBlock)

\* C7: with every Inception(64, 64) layer returning a tensor of its input's shape,
\* the upsampling stage built for upscale_factor = 2^n maps (64, H, W) to
\* (64, H * 2^n, W * 2^n).
C7_StageMagnifies ==
    (assume /\ net.cls = "Sequential" /\ WellTyped /\ Finished) =>
        /\ status = "done"
        /\ result.shape = <<input[1], 64, input[3] * Pow2(StageBlocks),
                            input[4] * Pow2(StageBlocks)>>

---------------------------------------------------------------------------
\* the shape s with c channels
WithChannels(s, c) == [s EXCEPT ![2] = c]

\* C8: in ResidualDenseBlock the k-th convolution receives in_channels +
\* (k-1)*growth_channels channels, which are its in_channels; conv1..conv4 emit
\* growth_channels and conv5 in_channels channels at the input's size; the block
\* and ResidualInResidualDenseBlock return a tensor of the input's shape.
C8_DenseBlocksKeepShape ==
    /\ \A i \in 1..Len(stack) :
          LET f == stack[i]
              x == f.env["input"].shape
          IN /\ (f.mod.cls = "ResidualDenseBlock" /\ x[2] = f.mod.cin) =>
                  /\ \A k \in 1..5 :
                        ("conv" \o ToString(k)) \in DOMAIN f.env =>
                            f.env["conv" \o ToString(k)].shape =
                                WithChannels(x, IF k = 5 THEN f.mod.cin ELSE f.mod.growth)
                  /\ (Instr(f).op = "call" /\ f.pc > 1) =>
                        /\ f.env["cat"].shape =
                              WithChannels(x, f.mod.cin + ((f.pc - 1) \div 2) * f.mod.growth)
                        /\ f.env["cat"].shape[2] = Callee(f).layers[1].cin
                  /\ "out" \in DOMAIN f.env => f.env["out"].shape = x
             /\ (f.mod.cls = "ResidualInResidualDenseBlock" /\ x[2] = f.mod.cin) =>
                  ("out" \in DOMAIN f.env => f.env["out"].shape = x)
    /\ (net.cls \in {"ResidualDenseBlock", "ResidualInResidualDenseBlock"}
          /\ WellTyped) =>
          /\ status \in {"idle", "running", "done"}
          /\ status = "done" => result.shape = input

C8_Witness ==
    /\ net.cls = "ResidualInResidualDenseBlock" /\ WellTyped
    /\ status = "done" /\ result.shape = input

---------------------------------------------------------------------------
\* C9: for H, W >= 32 every stride-2 convolution of the discriminator halves the
\* spatial size (rounding down) and every other layer keeps it, the features
\* are (512, floor(H/32), floor(W/32)) with both sizes >= 1, the pooled map is
\* (512, 7, 7) and its flattened length is the first Linear's in_features.
C9_DiscriminatorSizes ==
    (net.cls = "Discriminator" /\ WellTyped /\ input[3] >= 32 /\ input[4] >= 32
        /\ Len(stack) >= 1) =>
        LET f == stack[1]
            out == f.env["out"].shape
        IN /\ (Len(stack) >= 2 /\ f.pc = 1) =>
                 LET g == stack[2]
                     h == Halvings(g.mod.layers, g.pc - 1)
                 IN /\ g.env["input"].shape[3] = input[3] \div Pow2(h)
                    /\ g.env["input"].shape[4] = input[4] \div Pow2(h)
           /\ f.pc = 2 =>
                 /\ out = <<input[1], 512, input[3] \div 32, input[4] \div 32>>
                 /\ out[3] >= 1 /\ out[4] >= 1
           /\ f.pc = 3 => out = <<input[1], 512, 7, 7>>
           /\ f.pc = 4 =>
                 /\ out = <<input[1], 512 * 7 * 7>>
                 /\ out[2] = Sub(net, "classifier").layers[1].cin
                 /\ status = "running"

C9_Witness ==
    /\ net.cls = "Discriminator" /\ input = <<2, 3, 65, 33>>
    /\ Len(stack) = 1 /\ stack[1].pc = 4
    /\ stack[1].env["out"].shape = <<2, 25088>>

---------------------------------------------------------------------------
\* C10: no in-place activation writes into the caller's input or into a tensor
\* another variable still holds, and no statement reads a tensor after an in-place
\* activation overwrote it.
C10_NoOverwrite == ~clobbered /\ ~staleRead /\ dead = {}

C10_Witness ==
    /\ net.cls = "ResidualInResidualDenseBlock" /\ WellTyped
    /\ status = "running" /\ Len(stack) = 3
    /\ stack[3].mod.cls = "Sequential" /\ stack[3].pc = 3
    /\ stack[2].pc = 9

====
